---- MODULE Spec2Model ----
(***************************************************************************)
(* StorageMergeTreeIndex: the index of a MergeTree table read as a         *)
(* relation, one chunk per data part and one row per granule (mark).       *)
(*                                                                         *)
(* Column names are sequences of tokens ("." and "%2E" are tokens of their *)
(* own), so that Nested::splitName and unescapeForFileName are computed    *)
(* and not assumed.  Row and column positions are 0-based as in the code;  *)
(* TLA+ sequences are 1-based, hence the "+ 1" where a sequence is read.   *)
(***************************************************************************)
EXTENDS Integers, Sequences, FiniteSets, TLC

\* Longest part list of a table snapshot.
MaxParts == 2
\* Longest requested column list.
MaxCols == 2

----------------------------------------------------------------------------
\* Sequences

Range(s) == {s[i] : i \in 1..Len(s)}

Max(S) == CHOOSE m \in S : \A n \in S : n <= m

Min(S) == CHOOSE m \in S : \A n \in S : m <= n

RECURSIVE SumSeq(_)
SumSeq(s) == IF s = <<>> THEN 0 ELSE Head(s) + SumSeq(Tail(s))

\* All sequences over S of length lo..hi.
SeqsOf(S, lo, hi) == UNION {[1..n -> S] : n \in lo..hi}

\* All sequences of pairwise distinct elements of S of length 0..hi.
DistinctSeqsOf(S, hi) ==
    {s \in SeqsOf(S, 0, hi) : \A i, j \in 1..Len(s) : i # j => s[i] # s[j]}

\* std::optional
NullOpt == <<>>

Some(v) == <<v>>

----------------------------------------------------------------------------
\* Names

part_name_column == <<"part_name">>

mark_number_column == <<"mark_number">>

rows_in_granule_column == <<"rows_in_granule">>

virtuals_sample_block == <<part_name_column, mark_number_column, rows_in_granule_column>>

\* Nested::splitName(name, reverse): split at the first (last, if reverse)
\* dot; no split when there is no dot or the dot is the first or last character.
splitName(name, reverse) ==
    LET dots == {i \in 1..Len(name) : name[i] = "."} IN
    IF dots = {} THEN <<name, <<>>>>
    ELSE LET idx == IF reverse THEN Max(dots) ELSE Min(dots) IN
         IF idx = 1 \/ idx = Len(name) THEN <<name, <<>>>>
         ELSE <<SubSeq(name, 1, idx - 1), SubSeq(name, idx + 1, Len(name))>>

\* unescapeForFileName: %XX becomes the character it encodes.
unescapeForFileName(name) ==
    [i \in 1..Len(name) |-> IF name[i] = "%2E" THEN "." ELSE name[i]]

\* escapeForFileName: a character that is no word character becomes %XX.
escapeForFileName(name) ==
    [i \in 1..Len(name) |-> IF name[i] = "." THEN "%2E" ELSE name[i]]

MarkSuffix == <<".", "mark">>

----------------------------------------------------------------------------
\* The source table: its columns, its primary key, its data parts

\* Columns of the source table (n.x is a nested column, y was added by a
\* later ALTER and is missing from the older parts).
SourceColumns == {<<"k">>, <<"x">>, <<"y">>, <<"n", ".", "x">>}

\* getPrimaryKey().sample_block
key_sample_block == << <<"k">> >>

\* ColumnsDescription::hasColumnOrSubcolumn of the source table.
hasColumnOrSubcolumn(column_name) == column_name \in SourceColumns

HashOf(stream_name) == <<"#">> \o stream_name

PartW ==
    [name |-> "P1", type |-> "Wide", marks_rows |-> <<1, 2, 1>>, rows_count |-> 4,
     columns |-> << <<"k">>, <<"x">>, <<"n", ".", "x">> >>,
     checksums |-> {<<"k">>, <<"x">>, HashOf(<<"n", "%2E", "x">>)},
     index |-> << <<10, 11, 13>> >>]

PartC ==
    [name |-> "P2", type |-> "Compact", marks_rows |-> <<5>>, rows_count |-> 5,
     columns |-> << <<"x">>, <<"k">>, <<"y">> >>,
     checksums |-> {<<"data">>},
     index |-> << <<20>> >>]

PartU ==
    [name |-> "P3", type |-> "Unknown", marks_rows |-> <<2, 3>>, rows_count |-> 5,
     columns |-> << <<"k">>, <<"x">> >>,
     checksums |-> {},
     index |-> << <<30, 32>> >>]

PartE ==
    [name |-> "P4", type |-> "Compact", marks_rows |-> <<>>, rows_count |-> 0,
     columns |-> << <<"k">>, <<"n", ".", "x">> >>,
     checksums |-> {<<"data">>},
     index |-> << <<>> >>]

AllParts == {PartW, PartC, PartU, PartE}

PartNames == {p.name : p \in AllParts}

PartByName(n) == CHOOSE p \in AllParts : p.name = n

isWidePart(part) == part.type = "Wide"

isCompactPart(part) == part.type = "Compact"

\* MergeTreeIndexGranularity
getMarksCount(part) == Len(part.marks_rows)

getMarkRows(part, i) == part.marks_rows[i + 1]

\* IMergeTreeDataPart::getStreamNameOrHash: the stream's file name as the
\* checksums have it, plain or hashed; nothing when they have neither.
getStreamNameOrHash(part, stream_name) ==
    IF stream_name \in part.checksums THEN Some(stream_name)
    ELSE IF HashOf(stream_name) \in part.checksums THEN Some(HashOf(stream_name))
    ELSE NullOpt

\* IMergeTreeDataPart::getColumnPosition: 0-based position in getColumns().
getColumnPosition(part, column_name) ==
    LET at == {i \in 1..Len(part.columns) : part.columns[i] = column_name} IN
    IF at = {} THEN NullOpt ELSE Some(Min(at) - 1)

DATA_FILE_NAME == <<"data">>

----------------------------------------------------------------------------
\* Marks files and MergeTreeMarksLoader

PartOrder == <<"P1", "P2", "P3", "P4">>

PartNo(part_name) == CHOOSE i \in 1..Len(PartOrder) : PartOrder[i] = part_name

KnownPaths ==
    <<DATA_FILE_NAME, <<"k">>, <<"x">>, <<"y">>, <<"n", "%2E", "x">>,
      HashOf(<<"n", "%2E", "x">>)>>

PathNo(path) == CHOOSE i \in 1..Len(KnownPaths) : KnownPaths[i] = path

\* The j-th mark (0-based) of the marks file at `path` of a part: the files of
\* an immutable part never change, so a mark is a function of its place.
MarkInFile(part_name, path, j) ==
    [offset_in_compressed_file |-> 1000 * PartNo(part_name) + 100 * PathNo(path) + j,
     offset_in_decompressed_block |-> 10 * PathNo(path) + 3 * j]

NoLoader == [part |-> "", path |-> <<>>, num_columns |-> 0]

\* Mutant: every loader is created with a width of 1.
createMarksLoader_widthOne(part, prefix_name, num_columns) ==
    [part |-> part.name, path |-> prefix_name, num_columns |-> 1]

createMarksLoader(part, prefix_name, num_columns) ==
    [part |-> part.name, path |-> prefix_name, num_columns |-> num_columns]

\* MergeTreeMarksLoader::getMark(row_index, column_index): the marks of one
\* granule lie side by side, num_columns of them.
getMark(marks_loader, row_index, column_index) ==
    MarkInFile(marks_loader.part, marks_loader.path,
               row_index * marks_loader.num_columns + column_index)

\* One getMark call as the loader sees it; pos is the header position it is
\* issued for, which generate()'s loop fills in.
MarkCall(marks_loader, row_index, column_index) ==
    [loader |-> marks_loader, row |-> row_index, col |-> column_index, pos |-> -1]

----------------------------------------------------------------------------
\* Types and columns

UInt64Type == "UInt64"

StringType == "String"

MarkType == "Tuple(Nullable(UInt64), Nullable(UInt64))"

\* A Nullable(UInt64) value: the null map's byte and the nested value.
NotNull(v) == [is_null |-> FALSE, value |-> v]

Null == [is_null |-> TRUE, value |-> 0]

\* IDataType::getDefault: 0, the empty string, NULL for a Nullable, and for a
\* Tuple the tuple of its elements' defaults.
getDefault(data_type) ==
    CASE data_type = UInt64Type -> 0
      [] data_type = StringType -> ""
      [] data_type = MarkType -> <<Null, Null>>

createColumnConstWithDefaultValue(data_type, num_rows) ==
    [i \in 1..num_rows |-> getDefault(data_type)]

----------------------------------------------------------------------------
\* MergeTreeIndexSource

\* What materializing one column, or all of them, came to: the exception
\* thrown ("" when none), its argument and the header position it was thrown
\* at, the columns built, the getMark calls issued and the loaders created,
\* in order.
Returned(columns, calls, created) ==
    [thrown |-> "", what |-> <<>>, at |-> -1, columns |-> columns, calls |-> calls,
     created |-> created]

Thrown(code, what, calls, created) ==
    [thrown |-> code, what |-> what, at |-> -1, columns |-> <<>>, calls |-> calls,
     created |-> created]

\* Mutant: a compact part is taken to have marks for every column, at position 0
\* when the column is not in its list.
resolveMarks_alwaysHas(part, marks_loader_, column_name) ==
    LET stream_name == IF isWidePart(part)
                       THEN getStreamNameOrHash(part, column_name) ELSE NullOpt
        col_idx_opt == IF ~isWidePart(part) /\ isCompactPart(part)
                       THEN getColumnPosition(part, unescapeForFileName(column_name))
                       ELSE NullOpt
    IN
    [unsupported |-> ~isWidePart(part) /\ ~isCompactPart(part),
     has_marks_in_part |-> stream_name # NullOpt \/ isCompactPart(part),
     col_idx |-> IF col_idx_opt # NullOpt THEN col_idx_opt[1] ELSE 0,
     marks_loader |-> IF stream_name # NullOpt
                      THEN createMarksLoader(part, stream_name[1], 1)
                      ELSE marks_loader_,
     created |-> IF stream_name # NullOpt
                 THEN <<createMarksLoader(part, stream_name[1], 1)>>
                 ELSE <<>>]

\* Mutant: a part that is neither wide nor compact is taken to have no marks.
resolveMarks_degrade(part, marks_loader_, column_name) ==
    LET stream_name == IF isWidePart(part)
                       THEN getStreamNameOrHash(part, column_name) ELSE NullOpt
        col_idx_opt == IF ~isWidePart(part) /\ isCompactPart(part)
                       THEN getColumnPosition(part, unescapeForFileName(column_name))
                       ELSE NullOpt
    IN
    [unsupported |-> FALSE,
     has_marks_in_part |-> stream_name # NullOpt \/ col_idx_opt # NullOpt,
     col_idx |-> IF col_idx_opt # NullOpt THEN col_idx_opt[1] ELSE 0,
     marks_loader |-> IF stream_name # NullOpt
                      THEN createMarksLoader(part, stream_name[1], 1)
                      ELSE marks_loader_,
     created |-> IF stream_name # NullOpt
                 THEN <<createMarksLoader(part, stream_name[1], 1)>>
                 ELSE <<>>]

\* fillMarks' choice of loader and column position, by the part's type.
\* unsupported: the part is neither wide nor compact.  created: the loader
\* made here, if any.
resolveMarks(part, marks_loader_, column_name) ==
    LET stream_name == IF isWidePart(part)
                       THEN getStreamNameOrHash(part, column_name) ELSE NullOpt
        col_idx_opt == IF ~isWidePart(part) /\ isCompactPart(part)
                       THEN getColumnPosition(part, unescapeForFileName(column_name))
                       ELSE NullOpt
    IN
    [unsupported |-> ~isWidePart(part) /\ ~isCompactPart(part),
     has_marks_in_part |-> stream_name # NullOpt \/ col_idx_opt # NullOpt,
     col_idx |-> IF col_idx_opt # NullOpt THEN col_idx_opt[1] ELSE 0,
     marks_loader |-> IF stream_name # NullOpt
                      THEN createMarksLoader(part, stream_name[1], 1)
                      ELSE marks_loader_,
     created |-> IF stream_name # NullOpt
                 THEN <<createMarksLoader(part, stream_name[1], 1)>>
                 ELSE <<>>]

\* fillMarks once the loader and the position are chosen: the default column
\* when the part has no marks for the column, else one getMark per row.  A
\* loader reads its file at the first getMark, which is where a load fails.
fillResolved(part, m, data_type, load_fails) ==
    LET num_rows == getMarksCount(part)
        mark(i) == getMark(m.marks_loader, i, m.col_idx)
    IN
    IF m.unsupported
    THEN Thrown("NOT_IMPLEMENTED", part.type, <<>>, <<>>)
    ELSE IF ~m.has_marks_in_part
    THEN Returned(<<createColumnConstWithDefaultValue(data_type, num_rows)>>, <<>>, <<>>)
    ELSE IF load_fails /\ num_rows > 0
    THEN Thrown("CANNOT_READ_ALL_DATA", m.marks_loader.path,
                <<MarkCall(m.marks_loader, 0, m.col_idx)>>, m.created)
    ELSE Returned(
            <<[i \in 1..num_rows |->
                <<NotNull(mark(i - 1).offset_in_compressed_file),
                  NotNull(mark(i - 1).offset_in_decompressed_block)>>]>>,
            [i \in 1..num_rows |-> MarkCall(m.marks_loader, i - 1, m.col_idx)],
            m.created)

fillMarks(part, marks_loader, data_type, column_name, load_fails) ==
    fillResolved(part, resolveMarks(part, marks_loader, column_name), data_type, load_fails)

\* Block::has and Block::getPositionByName (0-based).
has(block, column_name) == column_name \in Range(block)

getPositionByName(block, column_name) ==
    Min({i \in 1..Len(block) : block[i] = column_name}) - 1

\* createColumnConst(num_rows, part->name)->convertToFullColumnIfConst()
partNameColumn(part, num_rows) == [i \in 1..num_rows |-> part.name]

\* Mutant: the column is resized to one row too many.
markNumberColumn_oneMore(num_rows) == [i \in 1..(num_rows + 1) |-> i - 1]

\* Mutant: the numbering starts at 1.
markNumberColumn_fromOne(num_rows) == [i \in 1..num_rows |-> i]

\* data.resize(num_rows); std::iota(data.begin(), data.end(), 0)
markNumberColumn(num_rows) == [i \in 1..num_rows |-> i - 1]

\* data[i] = index_granularity.getMarkRows(i)
rowsInGranuleColumn(part, num_rows) == [i \in 1..num_rows |-> getMarkRows(part, i - 1)]

\* The body of generate()'s loop: the column at one position of the header.
fillColumn(part, column, index_header, with_marks, marks_loader, load_fails) ==
    LET column_name == column.name
        column_type == column.type
        num_rows == getMarksCount(part)
        split == splitName(column_name, TRUE)
    IN
    IF has(index_header, column_name)
    THEN Returned(<<part.index[getPositionByName(index_header, column_name) + 1]>>, <<>>, <<>>)
    ELSE IF column_name = part_name_column
    THEN Returned(<<partNameColumn(part, num_rows)>>, <<>>, <<>>)
    ELSE IF column_name = mark_number_column
    THEN Returned(<<markNumberColumn(num_rows)>>, <<>>, <<>>)
    ELSE IF column_name = rows_in_granule_column
    THEN Returned(<<rowsInGranuleColumn(part, num_rows)>>, <<>>, <<>>)
    ELSE IF with_marks /\ split[2] = <<"mark">>
    THEN fillMarks(part, marks_loader, column_type, split[1], load_fails)
    ELSE Thrown("NO_SUCH_COLUMN_IN_TABLE", column_name, <<>>, <<>>)

\* generate()'s loop from position pos (0-based) on; it ends at the first
\* exception.  fail_pos is the position whose marks fail to load (-1: none).
AtPos(calls, pos) == [i \in 1..Len(calls) |-> [calls[i] EXCEPT !.pos = pos]]

\* The columns and calls of one position followed by those of the rest.
Following(one, rest) ==
    [thrown |-> rest.thrown, what |-> rest.what,
     columns |-> IF rest.thrown # "" THEN <<>> ELSE one.columns \o rest.columns,
     at |-> rest.at,
     calls |-> one.calls \o rest.calls,
     created |-> one.created \o rest.created]

RECURSIVE fillColumns(_, _, _, _, _, _, _)
FillFrom(one, part, header, index_header, with_marks, marks_loader, fail_pos, pos) ==
    IF one.thrown # "" THEN [one EXCEPT !.at = pos, !.calls = AtPos(@, pos)]
    ELSE Following([one EXCEPT !.calls = AtPos(@, pos)], fillColumns(part, header, index_header, with_marks,
                                    marks_loader, fail_pos, pos + 1))

fillColumns(part, header, index_header, with_marks, marks_loader, fail_pos, pos) ==
    IF pos >= Len(header) THEN Returned(<<>>, <<>>, <<>>)
    ELSE FillFrom(fillColumn(part, header[pos + 1], index_header, with_marks,
                             marks_loader, fail_pos = pos),
                  part, header, index_header, with_marks, marks_loader, fail_pos, pos)

\* Chunk(columns, num_rows); Chunk() is the empty chunk, the end of the stream.
Chunk(columns, num_rows) == [columns |-> columns, num_rows |-> num_rows]

EmptyChunk == Chunk(<<>>, 0)

NoPart == ""

\* What one call of generate() came to.
Pulled(kind, part_name, chunk, r) ==
    [kind |-> kind, part |-> part_name, chunk |-> chunk, thrown |-> r.thrown,
     what |-> r.what, at |-> r.at, calls |-> r.calls, created |-> r.created]

\* Mutant: part_index is not incremented.
Outcome_noIncrement(s, part, r, shared) ==
    IF r.thrown # ""
    THEN [out |-> Pulled("error", part.name, EmptyChunk,
                         [r EXCEPT !.created = shared \o @]),
          part_index |-> s.part_index]
    ELSE [out |-> Pulled("chunk", part.name, Chunk(r.columns, getMarksCount(part)),
                         [r EXCEPT !.created = shared \o @]),
          part_index |-> s.part_index]

\* Mutant: part_index is incremented before the columns are filled.
Outcome_incrementFirst(s, part, r, shared) ==
    IF r.thrown # ""
    THEN [out |-> Pulled("error", part.name, EmptyChunk,
                         [r EXCEPT !.created = shared \o @]),
          part_index |-> s.part_index + 1]
    ELSE [out |-> Pulled("chunk", part.name, Chunk(r.columns, getMarksCount(part)),
                         [r EXCEPT !.created = shared \o @]),
          part_index |-> s.part_index + 1]

\* The end of generate(): the exception goes up and part_index stays, or
\* part_index is incremented and the chunk returned.
Outcome(s, part, r, shared) ==
    IF r.thrown # ""
    THEN [out |-> Pulled("error", part.name, EmptyChunk,
                         [r EXCEPT !.created = shared \o @]),
          part_index |-> s.part_index]
    ELSE [out |-> Pulled("chunk", part.name, Chunk(r.columns, getMarksCount(part)),
                         [r EXCEPT !.created = shared \o @]),
          part_index |-> s.part_index + 1]

GenerateFor(s, part, marks_loader, fail_pos) ==
    Outcome(s, part,
            fillColumns(part, s.header, s.index_header, s.with_marks,
                        marks_loader, fail_pos, 0),
            IF marks_loader = NoLoader THEN <<>> ELSE <<marks_loader>>)

\* Mutant: the shared loader is made once, for the first compact part met, and
\* kept for the parts after it.
generate_staleLoader(s, fail_pos) ==
    IF s.part_index >= Len(s.data_parts)
    THEN [out |-> Pulled("end", NoPart, EmptyChunk, Returned(<<>>, <<>>, <<>>)),
          part_index |-> s.part_index]
    ELSE GenerateFor(s, s.data_parts[s.part_index + 1],
                     IF s.with_marks /\ isCompactPart(s.data_parts[s.part_index + 1])
                     THEN createMarksLoader(
                            s.data_parts[Min({i \in 1..(s.part_index + 1) :
                                                isCompactPart(s.data_parts[i])})],
                            DATA_FILE_NAME,
                            Len(s.data_parts[Min({i \in 1..(s.part_index + 1) :
                                                isCompactPart(s.data_parts[i])})].columns))
                     ELSE NoLoader,
                     fail_pos)

\* generate() on a source s: the outcome and the part index it leaves.
generate(s, fail_pos) ==
    IF s.part_index >= Len(s.data_parts)
    THEN [out |-> Pulled("end", NoPart, EmptyChunk, Returned(<<>>, <<>>, <<>>)),
          part_index |-> s.part_index]
    ELSE GenerateFor(s, s.data_parts[s.part_index + 1],
                     IF s.with_marks /\ isCompactPart(s.data_parts[s.part_index + 1])
                     THEN createMarksLoader(s.data_parts[s.part_index + 1], DATA_FILE_NAME,
                                            Len(s.data_parts[s.part_index + 1].columns))
                     ELSE NoLoader,
                     fail_pos)

----------------------------------------------------------------------------
\* StorageMergeTreeIndex

\* The columns the storage is constructed with: the primary key's, the three
\* virtual ones and, with marks, <escaped column>.mark per column of the table.
DeclaredColumns(with_marks_) ==
    Range(key_sample_block) \cup Range(virtuals_sample_block)
    \cup (IF with_marks_
          THEN {escapeForFileName(c) \o MarkSuffix : c \in SourceColumns}
          ELSE {})

TypeOfName(column_name) ==
    IF column_name = part_name_column THEN StringType
    ELSE IF splitName(column_name, TRUE)[2] = <<"mark">> THEN MarkType
    ELSE UInt64Type

\* StorageSnapshot::getSampleBlockForColumns: the names with their declared
\* types; a name the storage does not declare is an exception.
getSampleBlockForColumns(column_names, with_marks_) ==
    LET unknown == {i \in 1..Len(column_names) :
                        column_names[i] \notin DeclaredColumns(with_marks_)}
    IN
    IF unknown # {}
    THEN Thrown("NO_SUCH_COLUMN_IN_TABLE", column_names[Min(unknown)], <<>>, <<>>)
    ELSE Returned([i \in 1..Len(column_names) |->
                     [name |-> column_names[i], type |-> TypeOfName(column_names[i])]],
                  <<>>, <<>>)

\* read()'s first loop: the columns of the source table the access check is for.
RECURSIVE columnsFromStorage(_, _)
columnsFromStorage(column_names, with_marks_) ==
    IF column_names = <<>> THEN <<>>
    ELSE LET column_name == Head(column_names)
             split == splitName(column_name, TRUE)
             unescaped_name == unescapeForFileName(split[1])
             rest == columnsFromStorage(Tail(column_names), with_marks_)
         IN
         IF hasColumnOrSubcolumn(column_name) THEN <<column_name>> \o rest
         ELSE IF with_marks_ /\ split[2] = <<"mark">>
                 /\ hasColumnOrSubcolumn(unescapeForFileName(unescaped_name))
         THEN <<unescaped_name>> \o rest
         ELSE rest

\* A query: whether it has a WHERE, and the part names its WHERE accepts.
NoWhere == [where |-> FALSE, accepts |-> {}]

\* The queries over a part list: a WHERE is told from another by the names of
\* the list it accepts.
QueriesOver(parts) ==
    {NoWhere} \cup {[where |-> TRUE, accepts |-> A] : A \in SUBSET {part.name : part \in Range(parts)}}

\* VirtualColumnUtils::filterBlockWithQuery on the block of part names: the
\* rows the WHERE accepts, in the block's order.
filterBlockWithQuery(query, block) == SelectSeq(block, LAMBDA n : n \in query.accepts)

\* Mutant: an empty filtered block is taken for "no filter".
getFilteredDataParts_emptyIsAll(parts, query) ==
    IF ~query.where THEN parts
    ELSE LET all_part_names == [i \in 1..Len(parts) |-> parts[i].name]
             filtered_block == filterBlockWithQuery(query, all_part_names)
             part_names_set == Range(filtered_block)
         IN
         IF Len(filtered_block) = 0 THEN parts
         ELSE SelectSeq(parts, LAMBDA part : part.name \in part_names_set)

getFilteredDataParts(parts, query) ==
    IF ~query.where THEN parts
    ELSE LET all_part_names == [i \in 1..Len(parts) |-> parts[i].name]
             filtered_block == filterBlockWithQuery(query, all_part_names)
             part_names_set == Range(filtered_block)
         IN
         IF Len(filtered_block) = 0 THEN <<>>
         ELSE SelectSeq(parts, LAMBDA part : part.name \in part_names_set)

----------------------------------------------------------------------------
\* State

VARIABLES
    data_parts,   \* StorageMergeTreeIndex::data_parts, the snapshot of the parts
    with_marks,   \* StorageMergeTreeIndex::with_marks
    src           \* per reader: the read() call and its MergeTreeIndexSource

vars == <<data_parts, with_marks, src>>

Readers == {1, 2}

NoPull == Pulled("none", NoPart, EmptyChunk, Returned(<<>>, <<>>, <<>>))

\* phase: "none" before read(), "open" while the source can be pulled,
\* "failed" once read() or generate() has thrown.  emitted: the chunks
\* generate() returned, each with the name of the part it is for.  last: the
\* latest outcome.  names, query, access: read()'s arguments and the columns
\* it had the access check for.
NoSource ==
    [phase |-> "none", names |-> <<>>, query |-> NoWhere, access |-> <<>>,
     header |-> <<>>, index_header |-> <<>>, data_parts |-> <<>>,
     with_marks |-> FALSE, part_index |-> 0, emitted |-> <<>>, last |-> NoPull]

\* MergeTreeIndexSource's constructor.
MergeTreeIndexSource(header_, index_header_, data_parts_, with_marks_) ==
    [NoSource EXCEPT !.phase = "open", !.header = header_,
                     !.index_header = index_header_, !.data_parts = data_parts_,
                     !.with_marks = with_marks_]

RequestNames ==
    Range(key_sample_block) \cup Range(virtuals_sample_block)
    \cup {<<"x">> \o MarkSuffix, <<"y">> \o MarkSuffix,
          <<"n", "%2E", "x">> \o MarkSuffix, <<"z">> \o MarkSuffix, <<"bogus">>}

Init ==
    /\ data_parts \in DistinctSeqsOf(AllParts, MaxParts)
    /\ with_marks \in BOOLEAN
    /\ src = [r \in Readers |-> NoSource]

\* Mutant: the header is made of the requested names without asking the
\* storage snapshot for them.
read_unchecked(column_names, query) ==
    [MergeTreeIndexSource(
        [i \in 1..Len(column_names) |->
           [name |-> column_names[i], type |-> TypeOfName(column_names[i])]],
        key_sample_block, getFilteredDataParts(data_parts, query), with_marks)
     EXCEPT !.names = column_names, !.query = query,
            !.access = columnsFromStorage(column_names, with_marks)]

\* StorageMergeTreeIndex::read: the read call and the source it returns.
read(column_names, query) ==
    LET header == getSampleBlockForColumns(column_names, with_marks)
        filtered_parts == getFilteredDataParts(data_parts, query)
        called == [NoSource EXCEPT !.names = column_names, !.query = query,
                     !.access = columnsFromStorage(column_names, with_marks)]
    IN
    IF header.thrown # ""
    THEN [called EXCEPT !.phase = "failed",
                        !.last = Pulled("read_error", NoPart, EmptyChunk, header)]
    ELSE [MergeTreeIndexSource(header.columns, key_sample_block, filtered_parts, with_marks)
            EXCEPT !.names = column_names, !.query = query, !.access = called.access]

Read(r) ==
    /\ src[r].phase = "none"
    /\ \E column_names \in SeqsOf(RequestNames, 1, MaxCols), query \in QueriesOver(data_parts) :
          src' = [src EXCEPT ![r] = read(column_names, query)]
    /\ UNCHANGED <<data_parts, with_marks>>

\* The source after a call of generate() that came to g.
After(s, g) ==
    [s EXCEPT !.part_index = g.part_index,
              !.last = g.out,
              !.phase = IF g.out.kind = "error" THEN "failed" ELSE "open",
              !.emitted = IF g.out.kind = "chunk"
                          THEN Append(@, [part |-> g.out.part, chunk |-> g.out.chunk])
                          ELSE @]

\* One pull of a source.
pull(s, fail_pos) == After(s, generate(s, fail_pos))

\* A pull by the pipeline; the marks of at most one position fail to load.
Generate(r) ==
    /\ src[r].phase = "open"
    /\ \E fail_pos \in -1..(Len(src[r].header) - 1) :
          src' = [src EXCEPT ![r] = pull(src[r], fail_pos)]
    /\ UNCHANGED <<data_parts, with_marks>>

Next == Read(1) \/ Generate(1)

Spec == Init /\ [][Next]_vars

\* The source on its own: constructed over any part list with any header, so
\* that generate() meets the names read() would have refused.
InitSource ==
    /\ data_parts \in DistinctSeqsOf(AllParts, MaxParts)
    /\ with_marks \in BOOLEAN
    /\ \E column_names \in SeqsOf(RequestNames, 1, MaxCols) :
          src = [r \in Readers |->
                   IF r = 1
                   THEN [MergeTreeIndexSource(
                            [i \in 1..Len(column_names) |->
                               [name |-> column_names[i],
                                type |-> TypeOfName(column_names[i])]],
                            key_sample_block, data_parts, with_marks)
                         EXCEPT !.names = column_names]
                   ELSE NoSource]

NextSource == Generate(1)

SpecSource == InitSource /\ [][NextSource]_vars

\* The same request read twice over the same snapshot, the second time with
\* the same WHERE or with none.
ReadBoth ==
    /\ \A r \in Readers : src[r].phase = "none"
    /\ \E column_names \in SeqsOf(RequestNames, 1, MaxCols),
          query \in QueriesOver(data_parts), other \in BOOLEAN :
          src' = [r \in Readers |->
                    read(column_names, IF r = 2 /\ other THEN NoWhere ELSE query)]
    /\ UNCHANGED <<data_parts, with_marks>>

\* A pull that meets no load failure; the second read is pulled once the first
\* is over.
Pull(r) ==
    /\ src[r].phase = "open"
    /\ r = 2 => (src[1].phase = "failed" \/ src[1].last.kind = "end")
    /\ src' = [src EXCEPT ![r] = pull(src[r], -1)]
    /\ UNCHANGED <<data_parts, with_marks>>

NextPair == ReadBoth \/ \E r \in Readers : Pull(r)

SpecPair == Init /\ [][NextPair]_vars

----------------------------------------------------------------------------
\* Properties

\* The source of the single read of Spec and SpecSource.
S == src[1]

isMarkName(column_name) == splitName(column_name, TRUE)[2] = <<"mark">>

\* The header positions (0-based) of a source whose name is a .mark one.
MarkPositions(s) ==
    {c \in 0..(Len(s.header) - 1) : s.with_marks /\ isMarkName(s.header[c + 1].name)}

\* C1: every chunk generate() emits for a part has as many columns as the
\* requested schema has names, and each of its columns has as many rows as
\* the part has granules (marks), whatever kinds of columns are requested.
C1_ChunkShape ==
    \A k \in 1..Len(S.emitted) :
        LET chunk == S.emitted[k].chunk
            part == PartByName(S.emitted[k].part)
        IN /\ Len(chunk.columns) = Len(S.names)
           /\ chunk.num_rows = getMarksCount(part)
           /\ \A c \in 1..Len(chunk.columns) :
                  Len(chunk.columns[c]) = getMarksCount(part)

\* A three-granule part's chunk under a schema that mixes an index column
\* with a .mark column.
C1_Witness ==
    \E k \in 1..Len(S.emitted) :
        /\ S.emitted[k].chunk.num_rows = 3
        /\ Len(S.emitted[k].chunk.columns) = 2
        /\ S.names[1] \in Range(key_sample_block)
        /\ isMarkName(S.names[2])

\* The granule counts of a part list, summed.
RECURSIVE TotalMarks(_)
TotalMarks(parts) ==
    IF parts = <<>> THEN 0 ELSE getMarksCount(Head(parts)) + TotalMarks(Tail(parts))

RECURSIVE TotalRows(_)
TotalRows(emitted) ==
    IF emitted = <<>> THEN 0 ELSE Head(emitted).chunk.num_rows + TotalRows(Tail(emitted))

C2_InOrder ==
    S.phase = "open" =>
        /\ Len(S.emitted) = S.part_index
        /\ S.part_index <= Len(S.data_parts)
        /\ \A k \in 1..Len(S.emitted) :
              /\ S.emitted[k].part = S.data_parts[k].name
              /\ S.emitted[k].chunk.num_rows = getMarksCount(S.data_parts[k])
        /\ S.last.kind = "chunk" => S.last.part = S.data_parts[S.part_index].name
        /\ S.last.kind = "end" =>
              /\ Len(S.emitted) = Len(S.data_parts)
              /\ TotalRows(S.emitted) = TotalMarks(S.data_parts)

\* A pull that does not fail emits the next part's chunk, or signals the end
\* when there is none; the end, once signalled, is signalled by every later pull.
C2_Step ==
    (S.phase = "open" /\ src' # src /\ src'[1].phase = "open") =>
        IF S.part_index < Len(S.data_parts)
        THEN /\ src'[1].last.kind = "chunk"
             /\ src'[1].part_index = S.part_index + 1
             /\ src'[1].emitted =
                   Append(S.emitted, [part |-> S.data_parts[S.part_index + 1].name,
                                      chunk |-> src'[1].last.chunk])
        ELSE /\ src'[1].last.kind = "end"
             /\ src'[1].last.chunk = EmptyChunk
             /\ src'[1].emitted = S.emitted
             /\ src'[1].part_index = S.part_index

\* C2: over the pulls of one generator with no failure, the k-th pull emits
\* the chunk of the k-th part of the filtered list, one chunk per part in list
\* order; every pull after the last part signals the end of the stream; the
\* rows emitted are in number the sum of the parts' granule counts.
C2_PullSequence == [](C2_InOrder) /\ [][C2_Step]_vars

\* The end of the stream after the chunks of two parts.
C2_Witness ==
    /\ S.last.kind = "end"
    /\ Len(S.emitted) = 2
    /\ S.query.where
    /\ TotalRows(S.emitted) > 3

PlaceIn(parts, part) == CHOOSE i \in 1..Len(parts) : parts[i] = part

\* read() has built a source.
SourceBuilt(s) == s.phase # "none" /\ s.last.kind # "read_error"

C4_Narrowed ==
    SourceBuilt(S) =>
        LET F == S.data_parts
            D == data_parts
            q == S.query
        IN /\ \A i \in 1..Len(F) : F[i] \in Range(D)
           /\ \A i, j \in 1..Len(F) : i < j => PlaceIn(D, F[i]) < PlaceIn(D, F[j])
           /\ q.where => Range(F) = {part \in Range(D) : part.name \in q.accepts}
           /\ (~q.where \/ \A part \in Range(D) : part.name \in q.accepts) => F = D
           /\ (q.where /\ \A part \in Range(D) : part.name \notin q.accepts) => F = <<>>
           /\ S.last.kind = "none" => S.phase = "open"

\* C4: getFilteredDataParts narrows the snapshot's part list: the result holds
\* only parts of the list, each surviving part once and in the list's order;
\* with no filter, or one that accepts every part name, it is the list itself;
\* with a filter that rejects every part it is empty, and that is no error;
\* the stored list is never modified.
C4_PureNarrowing == [](C4_Narrowed) /\ [][data_parts' = data_parts]_vars

\* A filter that keeps the second of two parts.
C4_Witness ==
    /\ SourceBuilt(S)
    /\ S.query.where
    /\ Len(data_parts) = 2
    /\ S.data_parts = <<data_parts[2]>>

\* The column a .mark name is for is absent from the part's layout: a wide part
\* has no stream for it, plain or hashed; a compact part's column list has not
\* the column the file name stands for.
AbsentFrom(part, col) ==
    \/ /\ part.type = "Wide"
       /\ col \notin part.checksums
       /\ HashOf(col) \notin part.checksums
    \/ /\ part.type = "Compact"
       /\ unescapeForFileName(col) \notin Range(part.columns)

PresentIn(part, col) ==
    \/ /\ part.type = "Wide"
       /\ (col \in part.checksums \/ HashOf(col) \in part.checksums)
    \/ /\ part.type = "Compact"
       /\ unescapeForFileName(col) \in Range(part.columns)

CallsAt(pulled, c) == SelectSeq(pulled.calls, LAMBDA call : call.pos = c)

\* C5: a <col>.mark column is requested and <col> is absent from the part's
\* layout: the pull raises no error for it, issues no getMark for it, and
\* every row of the column is the default value of its type.
C5_AbsentMarks ==
    S.last.kind \in {"chunk", "error"} =>
        LET part == PartByName(S.last.part) IN
        \A c \in MarkPositions(S) :
            LET col == splitName(S.header[c + 1].name, TRUE)[1] IN
            AbsentFrom(part, col) =>
                /\ S.last.at # c
                /\ CallsAt(S.last, c) = <<>>
                /\ \A l \in Range(S.last.created) : l.path \notin {col, HashOf(col)}
                /\ S.last.kind = "chunk" =>
                      /\ Len(S.last.chunk.columns[c + 1]) = getMarksCount(part)
                      /\ \A i \in 1..getMarksCount(part) :
                            S.last.chunk.columns[c + 1][i] = getDefault(S.header[c + 1].type)

\* The compact part's chunk with the marks of a column it does not have.
C5_Witness ==
    /\ S.last.kind = "chunk"
    /\ S.last.part = PartC.name
    /\ S.names = << <<"n", "%2E", "x">> \o MarkSuffix, <<"y">> \o MarkSuffix >>
    /\ S.last.chunk.columns[1] = << <<Null, Null>> >>
    /\ CallsAt(S.last, 0) = <<>>
    /\ CallsAt(S.last, 1) # <<>>

\* A name read() can serve: a primary key column, one of the three virtual
\* columns, or, with marks, <col>.mark for a column of the table.
KnownName(column_name) ==
    \/ \E i \in 1..Len(key_sample_block) : key_sample_block[i] = column_name
    \/ column_name \in {<<"part_name">>, <<"mark_number">>, <<"rows_in_granule">>}
    \/ /\ with_marks
       /\ Len(column_name) >= 3
       /\ SubSeq(column_name, Len(column_name) - 1, Len(column_name)) = <<".", "mark">>
       /\ unescapeForFileName(SubSeq(column_name, 1, Len(column_name) - 2)) \in SourceColumns

----------------------------------------------------------------------------

\* The claim as it stands: the pull that reaches a part that is neither wide
\* nor compact fails with NOT_IMPLEMENTED.
C7_AnyPullFails ==
    (S.last.kind \in {"chunk", "error"} /\ PartByName(S.last.part).type \notin {"Wide", "Compact"}) =>
        /\ S.last.kind = "error"
        /\ S.last.thrown = "NOT_IMPLEMENTED"

\* C7, amended: the pull that reaches a part that is neither wide nor compact
\* fails with NOT_IMPLEMENTED naming the part's type, and emits no chunk for
\* the part, when a .mark column is requested; the chunks of the parts before
\* it have been emitted by then.  With no .mark column requested the part's
\* chunk is emitted as any other's.
C7_UnsupportedLayout ==
    (S.last.kind \in {"chunk", "error"} /\ PartByName(S.last.part).type \notin {"Wide", "Compact"}) =>
        IF MarkPositions(S) # {}
        THEN /\ S.last.kind = "error"
             /\ S.last.thrown = "NOT_IMPLEMENTED"
             /\ S.last.what = PartByName(S.last.part).type
             /\ S.last.chunk = EmptyChunk
             /\ S.last.calls = <<>>
             /\ \A k \in 1..Len(S.emitted) : S.emitted[k].part # S.last.part
             /\ S.data_parts[Len(S.emitted) + 1].name = S.last.part
             /\ \A k \in 1..Len(S.emitted) : S.emitted[k].part = S.data_parts[k].name
        ELSE /\ S.last.kind = "chunk"
             /\ S.emitted[Len(S.emitted)].part = S.last.part

\* NOT_IMPLEMENTED at the second part, after the first part's chunk.
C7_Witness ==
    /\ S.last.kind = "error"
    /\ S.last.thrown = "NOT_IMPLEMENTED"
    /\ S.last.part = PartU.name
    /\ Len(S.emitted) = 1
    /\ S.emitted[1].part = PartW.name
    /\ S.last.at = 1

----------------------------------------------------------------------------

\* C8: the chunk of a part under a requested schema depends on the part and
\* the schema alone: two reads of one request over one snapshot emit the same
\* chunks in the same order, and the chunk of a part in a filtered read is the
\* chunk of that part in the unfiltered read.
C8_Determinism ==
    /\ \A i \in 1..Len(src[1].emitted), j \in 1..Len(src[2].emitted) :
          src[1].emitted[i].part = src[2].emitted[j].part =>
              src[1].emitted[i].chunk = src[2].emitted[j].chunk
    /\ src[1].query = src[2].query =>
          \A k \in 1..Len(src[1].emitted) :
              k <= Len(src[2].emitted) => src[1].emitted[k] = src[2].emitted[k]

\* The filtered read has emitted its only chunk, the unfiltered one that of
\* the same part as its second, both with marks.
C8_Witness ==
    /\ src[1].query.where
    /\ ~src[2].query.where
    /\ Len(src[1].emitted) = 1
    /\ Len(src[2].emitted) = 2
    /\ src[1].emitted[1].part = src[2].emitted[2].part
    /\ src[2].last.kind = "chunk"
    /\ src[2].last.calls # <<>>
    /\ src[1].emitted[1].chunk.num_rows > 0

----------------------------------------------------------------------------

\* The loader and the column position the marks of col are to be asked of.
ExpectedLoader(part, col) ==
    IF part.type = "Wide"
    THEN [part |-> part.name,
          path |-> IF col \in part.checksums THEN col ELSE HashOf(col),
          num_columns |-> 1]
    ELSE [part |-> part.name, path |-> <<"data">>, num_columns |-> Len(part.columns)]

ExpectedPosition(part, col) ==
    IF part.type = "Wide" THEN 0
    ELSE PlaceIn(part.columns, unescapeForFileName(col)) - 1

\* C9: for a column the part has, the marks are asked of a loader of the
\* column's own stream, of width 1, at position 0 (wide part), or of the
\* part's one shared loader, of the width of the part's column list, at the
\* column's place in that list (compact part); one getMark(i, position) per
\* granule i, in order, and row i is the pair returned, both fields non-null.
C9_FetchProtocol ==
    S.last.kind = "chunk" =>
        LET part == PartByName(S.last.part)
            n == getMarksCount(part)
        IN
        /\ part.type = "Compact" /\ S.with_marks =>
              S.last.created = <<ExpectedLoader(part, <<>>)>>
        /\ \A c \in MarkPositions(S) :
              LET col == splitName(S.header[c + 1].name, TRUE)[1]
                  loader == ExpectedLoader(part, col)
                  position == ExpectedPosition(part, col)
              IN
              PresentIn(part, col) =>
                  /\ loader \in Range(S.last.created)
                  /\ CallsAt(S.last, c) =
                        [i \in 1..n |->
                           [loader |-> loader, row |-> i - 1, col |-> position, pos |-> c]]
                  /\ \A i \in 0..(n - 1) :
                        S.last.chunk.columns[c + 1][i + 1] =
                           <<NotNull(getMark(loader, i, position).offset_in_compressed_file),
                             NotNull(getMark(loader, i, position).offset_in_decompressed_block)>>

\* The wide part's chunk with the marks of two of its columns, one of them
\* under a hashed stream name.
C9_Witness ==
    /\ S.last.kind = "chunk"
    /\ S.last.part = PartW.name
    /\ S.names = << <<"n", "%2E", "x">> \o MarkSuffix, <<"x">> \o MarkSuffix >>
    /\ Len(S.last.calls) = 6
    /\ Len(S.last.created) = 2

----------------------------------------------------------------------------

C10_IndexCountsChunks ==
    /\ S.part_index = Len(S.emitted)
    /\ S.part_index <= Len(S.data_parts)
    /\ S.last.kind = "error" =>
          /\ S.phase = "failed"
          /\ S.last.chunk = EmptyChunk
          /\ S.last.thrown \in {"NO_SUCH_COLUMN_IN_TABLE", "NOT_IMPLEMENTED",
                                "CANNOT_READ_ALL_DATA"}
          /\ S.part_index < Len(S.data_parts)
          /\ S.data_parts[S.part_index + 1].name = S.last.part
          /\ \A k \in 1..Len(S.emitted) : S.emitted[k].part # S.last.part

C10_Step ==
    /\ src'[1].last.kind = "error" =>
          /\ src'[1].part_index = S.part_index
          /\ src'[1].emitted = S.emitted
    /\ src'[1].part_index # S.part_index =>
          /\ src'[1].part_index = S.part_index + 1
          /\ src'[1].last.kind = "chunk"
          /\ Len(src'[1].last.chunk.columns) = Len(S.header)
          /\ src'[1].emitted =
                Append(S.emitted, [part |-> src'[1].last.part,
                                   chunk |-> src'[1].last.chunk])

\* C10: a pull that fails (an unknown column, an unsupported layout, a load
\* failure) returns no chunk, whole or partial, for the part and leaves the
\* part index as it was; the index is incremented only by a pull that emits a
\* whole chunk, so it is the number of chunks emitted and never more than the
\* number of parts.
C10_FailedPull == [](C10_IndexCountsChunks) /\ [][C10_Step]_vars

\* A load failure at the second column of the second part, after the marks of
\* the first column were read.
C10_Witness ==
    /\ S.last.kind = "error"
    /\ S.last.thrown = "CANNOT_READ_ALL_DATA"
    /\ S.last.at = 1
    /\ Len(S.last.calls) > 1
    /\ S.part_index = 1

====
